---- MODULE Spec2Model ----
(***************************************************************************)
(* Model of the AHT10 temperature / humidity sensor driver                 *)
(* (STM32F030-CMSIS-AHT10-lib.c): the I2C command sequences of AHT10_init  *)
(* and AHT10_readSensorData, the raw-to-physical conversion of             *)
(* AHT10_getTempHumid100 and the fixed-point formatter i100toa.            *)
(*                                                                         *)
(* C arrays are modelled as sequences: ahtData[i] of the source is         *)
(* ahtData[i+1] here.  Strings are sequences of one-character strings.     *)
(***************************************************************************)
EXTENDS Integers, Sequences, FiniteSets, TLC

VARIABLES
    pc,          \* position of the program: which statement runs next
    ip,          \* index of the next statement inside AHT10_init / AHT10_readSensorData
    caller,      \* who called AHT10_readSensorData: "app" or "gth" (AHT10_getTempHumid100)
    AHT10_I2C,   \* the global handle of the I2C interface (NoBus until AHT10_init)
    bus,         \* configuration of the I2C transport: address, byte count, mode
    events,      \* trace of the transport and delay calls made by the driver call in
                 \* progress, or by the last one completed
    ahtData,     \* the 6-byte buffer the read transaction fills
    tempData,    \* raw 20-bit temperature field (local of AHT10_getTempHumid100)
    humidData,   \* raw 20-bit humidity field (local of AHT10_getTempHumid100)
    temp100,     \* *temp100 of the caller
    humid100,    \* *humid100 of the caller
    ret,         \* value returned by the last AHT10_getTempHumid100
    last,        \* what the previous completed measurement call observed and produced
    calls,       \* number of measurement calls entered so far
    args,        \* arguments of the AHT10_init call: <<thisI2C, I2CSpeed>>
    realV,       \* argument of i100toa
    thisString   \* string written by i100toa

drvVars  == <<ip, caller, AHT10_I2C, bus, events, calls, args>>
convVars == <<tempData, humidData, temp100, humid100, ret>>
fmtVars  == <<realV, thisString>>

vars == <<pc, drvVars, ahtData, convVars, last, fmtVars>>

-----------------------------------------------------------------------------
(* Program constants *)

AHT10_ADD       == 56     \* 0x38
AHT10_INIT      == 225    \* 0xE1
AHT10_INIT_D0   == 8      \* 0x08
AHT10_INIT_D1   == 0      \* 0x00
AHT10_TRIG_MEAS == 172    \* 0xAC
AHT10_TRIG_D0   == 51     \* 0x33
AHT10_TRIG_D1   == 0      \* 0x00

InitSettle_us   == 40     \* delay_us(40)
MeasureWait_us  == 75000  \* delay_us(75e3)
ReadSettle_us   == 420    \* delay_us(420)

TempMul         == 625
TempDiv         == 32768
TempOffset      == 5000
HumidDiv        == 10486

I2C1            == 1      \* the bus main() passes to AHT10_init
Speed100k       == 100000 \* 100e3, the speed main() passes to AHT10_init
NoBus           == 0      \* AHT10_I2C before AHT10_init (zero-initialised global)
Unset           == -1     \* a byte / value of automatic storage not yet written

Byte     == 0..255
Nibble   == 0..15
Int16    == -32768..32767

-----------------------------------------------------------------------------
(* Integer arithmetic of the target (32-bit int, 16-bit int16_t) *)

\* int16_t x = <int>: the value reduced modulo 2^16 into -32768..32767
ToInt16(x) ==
    LET m == x % 65536 IN IF m >= 32768 THEN m - 65536 ELSE m

\* C integer division truncates toward zero
Quot(a, b) == IF a >= 0 THEN a \div b ELSE -((-a) \div b)

\* abs() of <stdlib.h> on a 32-bit int
Abs(x) == IF x < 0 THEN -x ELSE x

\* a | b on non-negative ints, bit by bit
RECURSIVE BitOr(_, _)
BitOr(a, b) ==
    IF a = 0 THEN b
    ELSE IF b = 0 THEN a
    ELSE 2 * BitOr(a \div 2, b \div 2) + (IF a % 2 = 1 \/ b % 2 = 1 THEN 1 ELSE 0)

\* a & b on non-negative ints, bit by bit
RECURSIVE BitAnd(_, _)
BitAnd(a, b) ==
    IF a = 0 \/ b = 0 THEN 0
    ELSE 2 * BitAnd(a \div 2, b \div 2) + (IF a % 2 = 1 /\ b % 2 = 1 THEN 1 ELSE 0)

RECURSIVE Pow2(_)
Pow2(n) == IF n = 0 THEN 1 ELSE 2 * Pow2(n - 1)

Shl(a, n) == a * Pow2(n)        \* a << n (no bit is shifted out in this program)
Shr(a, n) == a \div Pow2(n)     \* a >> n on a non-negative int

-----------------------------------------------------------------------------
(* AHT10_getTempHumid100: separation of the fields and scaling *)

\* humidData = ( ahtData[1]<<16 | ahtData[2]<<8 | ahtData[3] ) >> 4
HumidDataOf(d) ==
    Shr(BitOr(BitOr(Shl(d[2], 16), Shl(d[3], 8)), d[4]), 4)

\* the mask of the shared byte forgotten
TempDataMut_NoMask(d) ==
    BitOr(BitOr(Shl(d[4], 16), Shl(d[5], 8)), d[6])

\* tempData = ( ahtData[3] & 0x0F ) <<16 | ahtData[4]<<8 | ahtData[5]
TempDataOf(d) ==
    BitOr(BitOr(Shl(BitAnd(d[4], 15), 16), Shl(d[5], 8)), d[6])

\* the division made before the multiplication
Temp100Mut_DivFirst(t) == ToInt16((t \div TempDiv) * TempMul - TempOffset)

\* the signed value divided, truncating toward zero
Temp100Mut_Trunc(t) ==
    ToInt16(Quot(t * TempMul - TempOffset * TempDiv, TempDiv))

\* *temp100 = (tempData*625) / 32768 - 5000, in uint32_t, narrowed to int16_t.
\* The product is below 2^31 for every 20-bit tempData.  The subtraction wraps
\* modulo 2^32 when the quotient is below 5000; as 2^16 divides 2^32 the low 16
\* bits of the wrapped difference are those of the unwrapped one.
Temp100Of(t) == ToInt16((t * TempMul) \div TempDiv - TempOffset)

\* the wrong element returned
StatusMut_Index(d) == d[2]

\* return ahtData[0]
StatusOf(d) == d[1]

\* the divisor 2^20 / 100 truncated instead of rounded up
Humid100Mut_Div(h) == ToInt16(h \div 10485)

\* *humid100 = humidData/10486, narrowed to int16_t
Humid100Of(h) == ToInt16(h \div HumidDiv)

-----------------------------------------------------------------------------
(* i100toa *)

DigitChar(n) == <<"0", "1", "2", "3", "4", "5", "6", "7", "8", "9">>[n + 1]

RECURSIVE UDigits(_)
UDigits(n) == IF n < 10 THEN <<DigitChar(n)>>
              ELSE UDigits(n \div 10) \o <<DigitChar(n % 10)>>

\* itoa( v, s, 10 ): decimal digits, with a leading "-" for a negative value
itoa(v) == IF v < 0 THEN <<"-">> \o UDigits(-v) ELSE UDigits(v)

\* the decimal digit wraps to 0 without the carry into the whole part
i100toaMut_NoCarry(v) ==
    LET x  == ToInt16(Abs(v))
        w  == ToInt16(Quot(x, 100))
        f  == ToInt16(x - w * 100)
        d  == ToInt16(Quot(f, 10))
        r  == ToInt16(f - d * 10)
        d2 == IF r >= 5 THEN (IF d + 1 >= 10 THEN 0 ELSE d + 1) ELSE d
        sign == IF v < 0 THEN <<"-">> ELSE << >>
    IN  sign \o itoa(w) \o <<".">> \o itoa(d2)

i100toa(v) ==
    LET x  == ToInt16(Abs(v))             \* int16_t x = abs( realV )
        w  == ToInt16(Quot(x, 100))       \* int16_t w = x / 100
        f  == ToInt16(x - w * 100)        \* int16_t f = x - ( w * 100 )
        d  == ToInt16(Quot(f, 10))        \* int16_t d = f / 10
        r  == ToInt16(f - d * 10)         \* int16_t r = f - ( d * 10 )
        up    == r >= 5
        carry == up /\ d + 1 >= 10
        d2 == IF carry THEN 0 ELSE IF up THEN d + 1 ELSE d
        w2 == IF carry THEN ToInt16(w + 1) ELSE w
        sign == IF v < 0 THEN <<"-">> ELSE << >>
    IN  sign \o itoa(w2) \o <<".">> \o itoa(d2)

-----------------------------------------------------------------------------
(* The statements of AHT10_init and AHT10_readSensorData *)

St(op, arg) == [op |-> op, arg |-> arg]

\* I2C_init called before the handle is bound
InitProgMut_BindLate ==
    << St("I2C_init", 0), St("bind", 0), St("setAddress", AHT10_ADD),
       St("setNBytes", 3), St("start", 0), St("write", AHT10_INIT),
       St("write", AHT10_INIT_D0), St("write", AHT10_INIT_D1), St("stop", 0),
       St("delay_us", InitSettle_us) >>

\* AHT10_init, lines 107-116
InitProg ==
    << St("bind", 0),                  \* AHT10_I2C = thisI2C
       St("I2C_init", 0),              \* I2C_init( AHT10_I2C, I2CSpeed )
       St("setAddress", AHT10_ADD),
       St("setNBytes", 3),
       St("start", 0),
       St("write", AHT10_INIT),
       St("write", AHT10_INIT_D0),
       St("write", AHT10_INIT_D1),
       St("stop", 0),
       St("delay_us", InitSettle_us) >>

\* the measurement wait made before the trigger transaction is stopped
ReadProgMut_WaitBeforeStop ==
    << St("setAddress", AHT10_ADD), St("setNBytes", 3), St("start", 0),
       St("write", AHT10_TRIG_MEAS), St("write", AHT10_TRIG_D0),
       St("write", AHT10_TRIG_D1), St("delay_us", MeasureWait_us), St("stop", 0),
       St("setNBytes", 6), St("setReadMode", 0), St("start", 0),
       St("read", 0), St("read", 1), St("read", 2), St("read", 3), St("read", 4),
       St("read", 5), St("stop", 0), St("setWriteMode", 0),
       St("delay_us", ReadSettle_us) >>

\* the transport left in read mode when the call returns
ReadProgMut_NoRestore ==
    << St("setAddress", AHT10_ADD), St("setNBytes", 3), St("start", 0),
       St("write", AHT10_TRIG_MEAS), St("write", AHT10_TRIG_D0),
       St("write", AHT10_TRIG_D1), St("stop", 0), St("delay_us", MeasureWait_us),
       St("setNBytes", 6), St("setReadMode", 0), St("start", 0),
       St("read", 0), St("read", 1), St("read", 2), St("read", 3), St("read", 4),
       St("read", 5), St("stop", 0), St("delay_us", ReadSettle_us) >>

\* AHT10_readSensorData, lines 135-157; "read" stores into data[arg]
ReadProg ==
    << St("setAddress", AHT10_ADD),
       St("setNBytes", 3),
       St("start", 0),
       St("write", AHT10_TRIG_MEAS),
       St("write", AHT10_TRIG_D0),
       St("write", AHT10_TRIG_D1),
       St("stop", 0),
       St("delay_us", MeasureWait_us),
       St("setNBytes", 6),
       St("setReadMode", 0),
       St("start", 0),
       St("read", 0),
       St("read", 1),
       St("read", 2),
       St("read", 3),
       St("read", 4),
       St("read", 5),
       St("stop", 0),
       St("setWriteMode", 0),
       St("delay_us", ReadSettle_us) >>

\* One observed call of a collaborator: the operation, the interface handle it
\* was given (NoBus for delay_us, which takes none) and its argument or, for a
\* read, the byte returned.
Ev(op, handle, arg) == [op |-> op, bus |-> handle, arg |-> arg]

\* the trace a run of the statements prog leaves, on interface h, the I2C_init
\* statement being given speed and the reads having returned the bytes d
TraceOf(prog, h, speed, d) ==
    [i \in 1..Len(prog) |->
        Ev(prog[i].op,
           IF prog[i].op = "delay_us" THEN NoBus ELSE h,
           IF prog[i].op = "read" THEN d[prog[i].arg + 1]
           ELSE IF prog[i].op = "I2C_init" THEN speed ELSE prog[i].arg)]

\* the statements of AHT10_init that call a collaborator
InitCalls == SelectSeq(InitProg, LAMBDA st : st.op # "bind")

ReadTrace(h, d) == TraceOf(ReadProg, h, 0, d)
InitTrace(h, speed) == TraceOf(InitCalls, h, speed, << >>)

-----------------------------------------------------------------------------
(* State shared by the specifications *)

WriteMode == "write"
ReadMode  == "read"

NoLast == [valid |-> FALSE, data |-> <<Unset, Unset, Unset, Unset, Unset, Unset>>,
           ops |-> << >>, kind |-> "none",
           temp100 |-> Unset, humid100 |-> Unset, ret |-> Unset]

\* The transport as AHT10_init( I2C1, 100e3 ) leaves it
BusAfterInit == [inited |-> TRUE, addr |-> AHT10_ADD, nbytes |-> 3, mode |-> WriteMode,
                 speed |-> Speed100k]

\* The transport as a completed AHT10_readSensorData then leaves it
BusAfterRead == [inited |-> TRUE, addr |-> AHT10_ADD, nbytes |-> 6, mode |-> WriteMode,
                 speed |-> Speed100k]

\* The state in which AHT10_readSensorData has just returned the bytes d to
\* AHT10_getTempHumid100, in the first measurement call after
\* AHT10_init( I2C1, 100e3 )
AfterRead(d) ==
    /\ pc = "gth_convert"
    /\ ip = 0
    /\ caller = "gth"
    /\ AHT10_I2C = I2C1
    /\ bus = BusAfterRead
    /\ events = ReadTrace(I2C1, d)
    /\ ahtData = d
    /\ tempData = Unset
    /\ humidData = Unset
    /\ temp100 = Unset
    /\ humid100 = Unset
    /\ ret = Unset
    /\ last = NoLast
    /\ calls = 1
    /\ args = <<I2C1, Speed100k>>
    /\ realV = 0
    /\ thisString = << >>

\* AHT10_getTempHumid100 after AHT10_readSensorData has returned: lines 180-191
Convert ==
    /\ pc = "gth_convert"
    /\ humidData' = HumidDataOf(ahtData)
    /\ tempData' = TempDataOf(ahtData)
    /\ temp100' = Temp100Of(tempData')
    /\ humid100' = Humid100Of(humidData')
    /\ ret' = StatusOf(ahtData)
    /\ last' = [valid |-> TRUE, data |-> ahtData,
                ops |-> events, kind |-> "gth",
                temp100 |-> temp100', humid100 |-> humid100', ret |-> ret']
    /\ pc' = "main"
    /\ UNCHANGED <<drvVars, ahtData, fmtVars>>

-----------------------------------------------------------------------------
(* Conversion of every raw temperature field *)

StatusOK   == 25     \* 0x19
StatusBusy == 153    \* 0x99

InitTemp ==
    \E n \in Nibble, b4 \in Byte, b5 \in Byte :
        AfterRead(<<StatusOK, 0, 0, n, b4, b5>>)

SpecTemp == InitTemp /\ [][Convert]_vars

(* Conversion of every raw humidity field *)

InitHumid ==
    \E b1 \in Byte, b2 \in Byte, n \in Nibble :
        AfterRead(<<StatusOK, b1, b2, 16 * n, 0, 0>>)

SpecHumid == InitHumid /\ [][Convert]_vars

\* A conversion has been made: the locals and outputs of lines 180-191 are set
Converted == tempData # Unset

-----------------------------------------------------------------------------
(* C2 *)

\* floor(t * 20000 / 2^20), the product taken in two 10-bit halves of t so
\* that no intermediate value needs more than 31 bits
DirectTemp(t) ==
    ((t \div 1024) * 20000 + ((t % 1024) * 20000) \div 1024) \div 1024

\* C2: for every raw 20-bit temperature field t the int16 stored in temp100 is
\* floor(t * 20000 / 2^20) - 5000 (the reduced expression agrees with the
\* direct formula), the product t * 625 fits in 32 bits, and the result lies in
\* -5000..14999, also where the quotient is below 5000.
C2_TempMatchesDirect ==
    Converted =>
        /\ tempData \in 0..1048575
        /\ temp100 = DirectTemp(tempData) - 5000
        /\ (tempData * TempMul) \div 65536 < 65536
        /\ temp100 \in -5000..14999

\* a reading whose quotient (1907) is below 5000: the uint32 subtraction wraps
C2_Witness ==
    /\ Converted
    /\ tempData = 100000
    /\ (tempData * TempMul) \div TempDiv < TempOffset
    /\ temp100 = -3093

-----------------------------------------------------------------------------
(* C7 *)

\* Numerator of the true value times 100 over the denominator 32768:
\* (t * 200 / 2^20 - 50) * 100 = (t * 625 - 5000 * 32768) / 32768
TrueTemp100Num(t) == t * 625 - 5000 * 32768

\* C7 as stated: temp100 is the true value times 100 rounded toward zero.
C7_RoundedTowardZero ==
    Converted => temp100 = Quot(TrueTemp100Num(tempData), 32768)

\* C7 amended: temp100 is the true value times 100 rounded toward minus
\* infinity (floor); for a reading below 0 degrees with a non-zero remainder
\* it is the next integer below the negative true value, one less than the
\* truncation toward zero.
C7_RoundedDown ==
    Converted =>
        /\ temp100 * 32768 <= TrueTemp100Num(tempData)
        /\ TrueTemp100Num(tempData) < (temp100 + 1) * 32768
        /\ (TrueTemp100Num(tempData) < 0 /\ TrueTemp100Num(tempData) % 32768 # 0)
              => temp100 = Quot(TrueTemp100Num(tempData), 32768) - 1

\* t = 1: the true value is -4999.98..., stored as -5000 (toward zero: -4999)
C7_Witness ==
    /\ Converted
    /\ tempData = 1
    /\ temp100 = -5000
    /\ Quot(TrueTemp100Num(tempData), 32768) = -4999

-----------------------------------------------------------------------------
(* C6 *)

\* C6 as stated: humid100 is within 1 unit of (h / 2^20) * 10000, that is
\* (humid100 - 1) * 2^20 <= h * 10000 <= (humid100 + 1) * 2^20, both sides
\* divided by 16.
C6_HundredthsOfPercent ==
    Converted =>
        /\ (humid100 - 1) * 65536 <= humidData * 625
        /\ humidData * 625 <= (humid100 + 1) * 65536

\* C6 amended: humid100 is the relative humidity in whole percent,
\* (h / 2^20) * 100: it lies in 0..99, never exceeds (h / 2^20) * 100 and is
\* the integer part of (h / 2^20) * 100 or one less.
C6_WholePercent ==
    Converted =>
        /\ humidData \in 0..1048575
        /\ humid100 \in 0..99
        /\ humid100 * 1048576 <= humidData * 100
        /\ (humidData * 100) \div 1048576 - humid100 \in {0, 1}

\* h = 1038113: (h / 2^20) * 100 = 99.002..., humid100 = 98
C6_Witness ==
    /\ Converted
    /\ humidData = 1038113
    /\ humid100 = 98
    /\ (humidData * 100) \div 1048576 = 99

-----------------------------------------------------------------------------
(* Formatting of every int16 value by i100toa *)

\* The application, with the driver initialised, is about to call
\* i100toa( v, myString )
BeforeFormat(v) ==
    /\ pc = "i100toa"
    /\ ip = 0
    /\ caller = "app"
    /\ AHT10_I2C = I2C1
    /\ bus = BusAfterInit
    /\ events = InitTrace(I2C1, Speed100k)
    /\ ahtData = NoLast.data
    /\ tempData = Unset
    /\ humidData = Unset
    /\ temp100 = Unset
    /\ humid100 = Unset
    /\ ret = Unset
    /\ last = NoLast
    /\ calls = 0
    /\ args = <<I2C1, Speed100k>>
    /\ realV = v
    /\ thisString = << >>

\* i100toa( realV, thisString ): lines 204-234
I100toa ==
    /\ pc = "i100toa"
    /\ thisString' = i100toa(realV)
    /\ pc' = "main"
    /\ UNCHANGED <<drvVars, ahtData, convVars, last, realV>>

InitFmt == \E v \in Int16 : BeforeFormat(v)

SpecFmt == InitFmt /\ [][I100toa]_vars

Formatted == pc = "main" /\ thisString # << >>

-----------------------------------------------------------------------------
(* Reading a decimal string back *)

IsDigit(c) == c \in {"0", "1", "2", "3", "4", "5", "6", "7", "8", "9"}

DigitValue(c) ==
    CASE c = "0" -> 0 [] c = "1" -> 1 [] c = "2" -> 2 [] c = "3" -> 3
      [] c = "4" -> 4 [] c = "5" -> 5 [] c = "6" -> 6 [] c = "7" -> 7
      [] c = "8" -> 8 [] c = "9" -> 9

AllDigits(s) == \A i \in 1..Len(s) : IsDigit(s[i])

RECURSIVE DecValue(_)
DecValue(s) ==
    IF s = << >> THEN 0
    ELSE 10 * DecValue(SubSeq(s, 1, Len(s) - 1)) + DigitValue(s[Len(s)])

\* s is the decimal representation of n: digits only, no superfluous leading 0
IsDecimalOf(s, n) ==
    /\ Len(s) >= 1
    /\ AllDigits(s)
    /\ Len(s) > 1 => s[1] # "0"
    /\ DecValue(s) = n

\* the string without its sign
Unsigned(s) == IF s # << >> /\ s[1] = "-" THEN Tail(s) ELSE s

-----------------------------------------------------------------------------
(* C1 *)

\* C1: for every v in -9999..9999 i100toa(v) writes exactly S W "." D, S being
\* "-" if v < 0 and empty otherwise, W the decimal representation of q div 10
\* and D the digit q mod 10, for q = floor((|v| + 5) / 10): |v| / 100 rounded
\* half-up in magnitude to one decimal place, with carry into the whole part.
C1_RoundHalfUpOneDecimal ==
    (Formatted /\ realV \in -9999..9999) =>
        LET q == ((IF realV < 0 THEN -realV ELSE realV) + 5) \div 10
            u == Unsigned(thisString)
            n == Len(u)
        IN  /\ (realV < 0) <=> (thisString[1] = "-")
            /\ n >= 3
            /\ IsDecimalOf(SubSeq(u, 1, n - 2), q \div 10)
            /\ u[n - 1] = "."
            /\ IsDigit(u[n])
            /\ DigitValue(u[n]) = q % 10

\* 1996 -> "20.0": the decimal digit rounds up to 10 and carries
C1_Witness ==
    /\ Formatted
    /\ realV = 1996
    /\ thisString = <<"2", "0", ".", "0">>

-----------------------------------------------------------------------------
(* C8 *)

\* C8: for every int16 input the string is an optional single "-", then 1 to 3
\* decimal digits, then ".", then exactly one digit; at most 6 characters; the
\* whole part is never negative and the decimal digit is in 0..9.
C8_ShapeForEveryInt16 ==
    Formatted =>
        LET u == Unsigned(thisString)
            n == Len(u)
        IN  /\ Len(thisString) <= 6
            /\ n >= 3
            /\ n - 2 \in 1..3
            /\ AllDigits(SubSeq(u, 1, n - 2))
            /\ u[n - 1] = "."
            /\ IsDigit(u[n])

-----------------------------------------------------------------------------
(* Separation of the two fields: every value of the shared byte ahtData[3] *)

\* values of the other data bytes: 0x00 and 0xFF, and 0x19, 0x99, 0x66 where
\* the documented example read has them
DataSamples == {0, 255, 102}

InitExtract ==
    \E b1 \in {0, 255, 25}, b2 \in {0, 255, 153}, b3 \in Byte,
       b4 \in DataSamples, b5 \in DataSamples :
        AfterRead(<<StatusOK, b1, b2, b3, b4, b5>>)

SpecExtract == InitExtract /\ [][Convert]_vars

(* C3 *)

\* C3: humidData is the top 20 bits and tempData the bottom 20 bits of the
\* 40-bit big-endian value b1:b2:b3:b4:b5.  Both lie in 0..2^20-1 and
\* humidData * 2^20 + tempData is that value, which (by uniqueness of quotient
\* and remainder by 2^20) is stated on the two halves:
\*   humidData = b1 * 2^12 + b2 * 2^4 + (b3 div 16)
\*   tempData  = (b3 mod 16) * 2^16 + b4 * 2^8 + b5.
\* humidData does not change with the low nibble of b3, b4 or b5, and tempData
\* does not change with b1, b2 or the high nibble of b3.
C3_FieldsOf40Bits ==
    Converted =>
        LET d == ahtData
            hi == d[4] \div 16
            lo == d[4] % 16
        IN  /\ humidData \in 0..1048575
            /\ tempData \in 0..1048575
            /\ humidData = d[2] * 4096 + d[3] * 16 + hi
            /\ tempData = lo * 65536 + d[5] * 256 + d[6]
            /\ \A n \in Nibble :
                  /\ HumidDataOf([d EXCEPT ![4] = 16 * hi + n]) = humidData
                  /\ TempDataOf([d EXCEPT ![4] = 16 * n + lo]) = tempData
            /\ \A x \in DataSamples :
                  /\ HumidDataOf([d EXCEPT ![5] = x]) = humidData
                  /\ HumidDataOf([d EXCEPT ![6] = x]) = humidData
                  /\ TempDataOf([d EXCEPT ![2] = x]) = tempData
                  /\ TempDataOf([d EXCEPT ![3] = x]) = tempData

\* the read 0x19, 0x19,0x99,0x9A,0x66,0x66: byte 3 = 0x9A gives humidity its
\* low nibble 0x9 (0x19999) and temperature its high nibble 0xA (0xA6666)
C3_Witness ==
    /\ Converted
    /\ ahtData = <<25, 25, 153, 154, 102, 102>>
    /\ humidData = 104857
    /\ tempData = 681574

-----------------------------------------------------------------------------
(* The status byte: every value of ahtData[0] *)

\* values of the data bytes: 0x00, 0xFF
StatusDataSamples == {0, 255}

InitStatus ==
    \E s \in Byte, b1 \in StatusDataSamples, b2 \in StatusDataSamples,
       b3 \in StatusDataSamples, b4 \in StatusDataSamples, b5 \in StatusDataSamples :
        AfterRead(<<s, b1, b2, b3, b4, b5>>)

SpecStatus == InitStatus /\ [][Convert]_vars

(* C4 *)

\* the read d with its status byte replaced by s
WithStatus(d, s) == [d EXCEPT ![1] = s]

\* the read d with its five data bytes replaced by b
WithData(d, b) == <<d[1], b, b, b, b, b>>

\* other status values a read could have carried: 0x00, 0x08, 0x18, 0x19,
\* 0x80, 0x99, 0xFF
OtherStatus == {0, 8, 24, 25, 128, 153, 255}

\* C4: AHT10_getTempHumid100 returns byte 0 of the read unmodified, whatever
\* its value; a read differing only in byte 0 gives the same temp100 and
\* humid100, and a read differing only in bytes 1..5 gives the same status.
C4_StatusPassThrough ==
    Converted =>
        /\ ret = ahtData[1]
        /\ \A s \in OtherStatus :
              /\ Temp100Of(TempDataOf(WithStatus(ahtData, s))) = temp100
              /\ Humid100Of(HumidDataOf(WithStatus(ahtData, s))) = humid100
        /\ \A b \in Byte : StatusOf(WithData(ahtData, b)) = ret

\* 0x99 is returned as 0x99 with all-ones data
C4_Witness ==
    /\ Converted
    /\ ahtData = <<StatusBusy, 255, 255, 255, 255, 255>>
    /\ ret = StatusBusy

-----------------------------------------------------------------------------
(* The driver: AHT10_init, then measurement calls, statement by statement *)

MaxCalls == 3      \* measurement calls made in one behaviour

\* arguments the application may give to AHT10_init
\* (main() gives I2C1 at 100 kHz; a second interface at 400 kHz is the other)
InitArgs == {<<I2C1, Speed100k>>, <<2, 400000>>}

\* what the sensor may answer: status 0x19 or 0x99, data bytes 0x66 or 0x9A
SensorStatus == {StatusOK, StatusBusy}
SensorData   == {102, 154}

\* The configuration of the transport after a transport call
BusEffect(b, st, speed) ==
    CASE st.op = "I2C_init"     -> [inited |-> TRUE, addr |-> 0, nbytes |-> 0,
                                    mode |-> WriteMode, speed |-> speed]
      [] st.op = "setAddress"   -> [b EXCEPT !.addr = st.arg]
      [] st.op = "setNBytes"    -> [b EXCEPT !.nbytes = st.arg]
      [] st.op = "setReadMode"  -> [b EXCEPT !.mode = ReadMode]
      [] st.op = "setWriteMode" -> [b EXCEPT !.mode = WriteMode]
      [] OTHER                  -> b

BusAtReset == [inited |-> FALSE, addr |-> 0, nbytes |-> 0, mode |-> WriteMode,
               speed |-> 0]

\* Power-up: main() has not yet called AHT10_init
Init ==
    /\ pc = "main"
    /\ ip = 0
    /\ caller = "app"
    /\ AHT10_I2C = NoBus
    /\ bus = BusAtReset
    /\ events = << >>
    /\ calls = 0
    /\ args = <<NoBus, 0>>
    /\ ahtData = NoLast.data
    /\ tempData = Unset
    /\ humidData = Unset
    /\ temp100 = Unset
    /\ humid100 = Unset
    /\ ret = Unset
    /\ last = NoLast
    /\ realV = 0
    /\ thisString = << >>

\* main() calls AHT10_init( thisI2C, I2CSpeed ), once, before any measurement
CallInit ==
    /\ pc = "main"
    /\ args = <<NoBus, 0>>
    /\ \E a \in InitArgs : args' = a
    /\ pc' = "init"
    /\ ip' = 1
    /\ UNCHANGED <<caller, AHT10_I2C, bus, events, calls, ahtData, convVars, last,
                   fmtVars>>

\* one statement of AHT10_init; after the last one the function returns
InitStep ==
    /\ pc = "init"
    /\ LET st == InitProg[ip]
           isDelay == st.op = "delay_us"
           arg == IF st.op = "I2C_init" THEN args[2] ELSE st.arg
       IN  IF st.op = "bind"
           THEN /\ AHT10_I2C' = args[1]
                /\ UNCHANGED <<bus, events>>
           ELSE /\ events' = Append(events,
                               Ev(st.op, IF isDelay THEN NoBus ELSE AHT10_I2C, arg))
                /\ bus' = BusEffect(bus, st, args[2])
                /\ UNCHANGED AHT10_I2C
    /\ IF ip = Len(InitProg)
       THEN pc' = "main" /\ ip' = 0
       ELSE pc' = "init" /\ ip' = ip + 1
    /\ UNCHANGED <<caller, calls, args, ahtData, convVars, last, fmtVars>>

\* the application calls AHT10_readSensorData( data ) with a buffer of its own
\* (an application measures through one of the two entry points throughout)
CallReadSensorData ==
    /\ pc = "main"
    /\ AHT10_I2C # NoBus
    /\ calls < MaxCalls
    /\ last.kind # "gth"
    /\ pc' = "rsd"
    /\ ip' = 1
    /\ caller' = "app"
    /\ calls' = calls + 1
    /\ events' = << >>
    /\ ahtData' = NoLast.data
    /\ UNCHANGED <<AHT10_I2C, bus, args, convVars, last, fmtVars>>

\* the application calls AHT10_getTempHumid100, which declares ahtData[6] and
\* calls AHT10_readSensorData( ahtData ): lines 173-177
CallGetTempHumid100 ==
    /\ pc = "main"
    /\ AHT10_I2C # NoBus
    /\ calls < MaxCalls
    /\ last.kind # "rsd"
    /\ pc' = "rsd"
    /\ ip' = 1
    /\ caller' = "gth"
    /\ calls' = calls + 1
    /\ events' = << >>
    /\ ahtData' = NoLast.data
    /\ UNCHANGED <<AHT10_I2C, bus, args, convVars, last, fmtVars>>

\* one statement of AHT10_readSensorData other than a read
ReadStep ==
    /\ pc = "rsd"
    /\ ip <= Len(ReadProg)
    /\ ReadProg[ip].op # "read"
    /\ LET st == ReadProg[ip]
       IN  /\ events' = Append(events,
                 Ev(st.op, IF st.op = "delay_us" THEN NoBus ELSE AHT10_I2C, st.arg))
           /\ bus' = BusEffect(bus, st, bus.speed)
    /\ ip' = ip + 1
    /\ UNCHANGED <<pc, caller, AHT10_I2C, calls, args, ahtData, convVars,
                   last, fmtVars>>

\* data[i] = I2C_read( AHT10_I2C ): the sensor answers with any byte it may send
ReadByte ==
    /\ pc = "rsd"
    /\ ip <= Len(ReadProg)
    /\ ReadProg[ip].op = "read"
    /\ LET i == ReadProg[ip].arg
       IN  \E b \in (IF Len(SelectSeq(events,
                                       LAMBDA e : e.op = "read")) = 0
                     THEN SensorStatus ELSE SensorData) :
              /\ ahtData' = [ahtData EXCEPT ![i + 1] = b]
              /\ events' = Append(events, Ev("read", AHT10_I2C, b))
    /\ ip' = ip + 1
    /\ UNCHANGED <<pc, caller, AHT10_I2C, bus, calls, args, convVars, last,
                   fmtVars>>

\* a driver that triggers and reads again while the status shows busy
ReadReturnMut_Retry ==
    /\ pc = "rsd"
    /\ ip = Len(ReadProg) + 1
    /\ IF ahtData[1] >= 128
       THEN pc' = "rsd" /\ ip' = 1 /\ UNCHANGED last
       ELSE /\ ip' = 0
            /\ IF caller = "gth"
               THEN pc' = "gth_convert" /\ UNCHANGED last
               ELSE /\ pc' = "main"
                    /\ last' = [valid |-> TRUE, data |-> ahtData,
                                ops |-> events,
                                kind |-> "rsd", temp100 |-> temp100,
                                humid100 |-> humid100, ret |-> ret]
    /\ UNCHANGED <<caller, AHT10_I2C, bus, events, calls, args, ahtData,
                   convVars, fmtVars>>

\* AHT10_readSensorData returns: to the application, or into
\* AHT10_getTempHumid100 at line 180
ReadReturn ==
    /\ pc = "rsd"
    /\ ip = Len(ReadProg) + 1
    /\ ip' = 0
    /\ IF caller = "gth"
       THEN pc' = "gth_convert" /\ UNCHANGED last
       ELSE /\ pc' = "main"
            /\ last' = [valid |-> TRUE, data |-> ahtData,
                        ops |-> events,
                        kind |-> "rsd",
                        temp100 |-> temp100, humid100 |-> humid100, ret |-> ret]
    /\ UNCHANGED <<caller, AHT10_I2C, bus, events, calls, args, ahtData,
                   convVars, fmtVars>>

Next ==
    \/ CallInit
    \/ InitStep
    \/ CallReadSensorData
    \/ CallGetTempHumid100
    \/ ReadStep
    \/ ReadByte
    \/ ReadReturn
    \/ Convert

Spec == Init /\ [][Next]_vars

-----------------------------------------------------------------------------
(* Observations of the driver *)

\* the collaborator calls of the measurement call in progress or last completed
CallSeg == events

\* AHT10_readSensorData has made its last collaborator call
ReadComplete == calls > 0 /\ (pc # "rsd" \/ ip = Len(ReadProg) + 1)

\* AHT10_init has returned
InitComplete == AHT10_I2C # NoBus /\ pc # "init"

IsPrefix(a, b) == Len(a) <= Len(b) /\ \A i \in 1..Len(a) : a[i] = b[i]

Count(seq, op) == Len(SelectSeq(seq, LAMBDA e : e.op = op))

-----------------------------------------------------------------------------
(* C5 *)

\* the events of one AHT10_readSensorData on interface h that stored d
ExpectedRead(h, d) ==
    << Ev("setAddress", h, 56), Ev("setNBytes", h, 3), Ev("start", h, 0),
       Ev("write", h, 172), Ev("write", h, 51), Ev("write", h, 0),
       Ev("stop", h, 0),
       Ev("delay_us", NoBus, 75000),
       Ev("setNBytes", h, 6), Ev("setReadMode", h, 0), Ev("start", h, 0),
       Ev("read", h, d[1]), Ev("read", h, d[2]), Ev("read", h, d[3]),
       Ev("read", h, d[4]), Ev("read", h, d[5]), Ev("read", h, d[6]),
       Ev("stop", h, 0),
       Ev("setWriteMode", h, 0),
       Ev("delay_us", NoBus, 420) >>

\* C5: every call of AHT10_readSensorData produces, in this order: address
\* 0x38, byte count 3, start, writes of 0xAC, 0x33, 0x00, stop; one delay of
\* 75000 us; byte count 6, read mode, start, six reads stored in order into
\* data[0]..data[5], stop; write mode; a delay of 420 us.  No read (of the
\* status or of data) is made before the 75 ms delay that follows the trigger's
\* stop.
C5_ReadSequence ==
    calls > 0 =>
        /\ IsPrefix(CallSeg, ExpectedRead(AHT10_I2C, ahtData))
        /\ ReadComplete => CallSeg = ExpectedRead(AHT10_I2C, ahtData)
        /\ \A i \in 1..Len(CallSeg) :
              CallSeg[i].op = "read" =>
                  \E j \in 1..(i - 1) :
                      /\ CallSeg[j] = Ev("delay_us", NoBus, 75000)
                      /\ \E k \in 1..(j - 1) : CallSeg[k].op = "stop"
        /\ \A i \in 1..6 :
              (ahtData[i] # Unset) <=> (Count(CallSeg, "read") >= i)

\* a completed call that read 0x19 and then 0x66 0x9A 0x66 0x9A 0x66
C5_Witness ==
    /\ ReadComplete
    /\ pc = "main"
    /\ Len(CallSeg) = 20
    /\ ahtData = <<25, 102, 154, 102, 154, 102>>

-----------------------------------------------------------------------------
(* C9 *)

\* the events of AHT10_init( h, speed )
ExpectedInit(h, speed) ==
    << Ev("I2C_init", h, speed), Ev("setAddress", h, 56), Ev("setNBytes", h, 3),
       Ev("start", h, 0),
       Ev("write", h, 225), Ev("write", h, 8), Ev("write", h, 0),
       Ev("stop", h, 0),
       Ev("delay_us", NoBus, 40) >>

\* C9: every call of AHT10_init binds the global handle to the given bus and
\* then produces, in this order: bus initialised at the given speed, address
\* 0x38, byte count 3, start, writes of exactly 0xE1, 0x08, 0x00, stop, and a
\* delay of 40 us; no read and no other write.
C9_InitSequence ==
    /\ pc = "init" =>
          /\ IsPrefix(events, ExpectedInit(args[1], args[2]))
          /\ events # << >> => AHT10_I2C = args[1]
    /\ InitComplete => AHT10_I2C = args[1]
    /\ (InitComplete /\ calls = 0) =>
          /\ events = ExpectedInit(args[1], args[2])
          /\ Count(events, "read") = 0
          /\ Count(events, "write") = 3

\* AHT10_init on the second interface at 400000 Hz has returned
C9_Witness ==
    /\ InitComplete
    /\ pc = "main"
    /\ calls = 0
    /\ args = <<2, 400000>>
    /\ Len(events) = 9

-----------------------------------------------------------------------------
(* C10 *)

\* the operations of a trace, without the bytes the reads returned
StripReads(seq) ==
    [i \in 1..Len(seq) |->
        IF seq[i].op = "read" THEN [seq[i] EXCEPT !.arg = 0] ELSE seq[i]]

Delays(seq) ==
    LET ds == SelectSeq(seq, LAMBDA e : e.op = "delay_us")
    IN  [i \in 1..Len(ds) |-> ds[i].arg]

Triggers(seq) ==
    Len(SelectSeq(seq, LAMBDA e : e.op = "write" /\ e.arg = 172))

\* C10: the operations of a measurement call are the same whatever bytes the
\* sensor returns: each call issues one trigger command and one 6-byte read,
\* repeats no transaction, lengthens or repeats no wait, and the only outcome
\* it reports is the status byte.  The operations of a call are those of the
\* call before it, whatever status (0x99 or 0x19) either read.
C10_SameOperationsWhateverRead ==
    calls > 0 =>
        /\ Count(CallSeg, "start") <= 2
        /\ Count(CallSeg, "stop") <= 2
        /\ Triggers(CallSeg) <= 1
        /\ Count(CallSeg, "read") <= 6
        /\ IsPrefix(Delays(CallSeg), <<75000, 420>>)
        /\ ReadComplete =>
              /\ Count(CallSeg, "start") = 2
              /\ Count(CallSeg, "stop") = 2
              /\ Triggers(CallSeg) = 1
              /\ Count(CallSeg, "read") = 6
              /\ Count(CallSeg, "setNBytes") = 2
              /\ Delays(CallSeg) = <<75000, 420>>
        /\ last.valid =>
              /\ IsPrefix(StripReads(CallSeg), StripReads(last.ops))
              /\ Len(last.ops) = 20
        /\ (last.valid /\ last.kind = "gth") => last.ret = last.data[1]
        /\ (last.valid /\ last.kind = "rsd") => last.ret = Unset

\* the second call has read status 0x19 after a first call that read 0x99
C10_Witness ==
    /\ pc = "rsd"
    /\ ip = Len(ReadProg) + 1
    /\ last.valid
    /\ last.data[1] = StatusBusy
    /\ ahtData[1] = StatusOK
    /\ ahtData[2] # last.data[2]
    /\ StripReads(CallSeg) = StripReads(last.ops)

-----------------------------------------------------------------------------
(* C11 *)

\* the statement AHT10_readSensorData executes next, if any
NextReadOp ==
    IF pc = "rsd" /\ ip <= Len(ReadProg) THEN ReadProg[ip].op ELSE "none"

\* the collaborator call AHT10_readSensorData has just made, if any
LastReadOp ==
    IF pc = "rsd" /\ events # << >> THEN events[Len(events)].op ELSE "none"

\* a measurement call has returned to the application, or AHT10_readSensorData
\* has returned into AHT10_getTempHumid100
CallReturned == calls > 0 /\ pc \in {"main", "gth_convert"}

\* C11: AHT10_init leaving the transport in write mode, in any sequence of
\* measurement calls the transport is in write mode with byte count 3 at
\* every byte write, in read mode with byte count 6 at every byte read, and in
\* write mode whenever a call returns, so that the trigger transaction of the
\* next call (its start included) is again a write.
C11_ModeAtEveryTransfer ==
    /\ (InitComplete /\ calls = 0) => bus.mode = WriteMode
    /\ (NextReadOp = "write" \/ LastReadOp = "write") =>
          bus.mode = WriteMode /\ bus.nbytes = 3
    /\ (NextReadOp = "read" \/ LastReadOp = "read") =>
          bus.mode = ReadMode /\ bus.nbytes = 6
    /\ (NextReadOp = "start" /\ Count(events, "start") = 0) =>
          bus.mode = WriteMode /\ bus.nbytes = 3
    /\ CallReturned => bus.mode = WriteMode

\* the third call is about to write its trigger command, the two calls before
\* it having each switched the transport to read mode and back
C11_Witness ==
    /\ calls = 3
    /\ last.valid
    /\ Count(last.ops, "setReadMode") = 1
    /\ NextReadOp = "write"
    /\ ReadProg[ip].arg = 172
    /\ bus.mode = WriteMode
    /\ bus.nbytes = 3

====
